---- MODULE Spec2Model ----
(***************************************************************************)
(* Effect-transformation search of the Schedule-1 calculator:              *)
(*   helpers/effect_path.py   apply_additive, forward_effect_search        *)
(*   logic/reverse_logic.py   ReverseLogic.unmix / pick_best_product       *)
(*   helpers/pricing_manager.py PricingManager.calculate_price             *)
(*   helpers/effect_path.py   pick_best_product, calculate_path_cost       *)
(*   helpers/rank.py          RankManager                                  *)
(*   logic/mixer_logic.py     MixerLogic.calculate_mix                     *)
(* Python sets have no specified iteration order; every loop over a set    *)
(* is modelled as a choice among all orders of its members.                *)
(***************************************************************************)
EXTENDS Integers, Sequences, FiniteSets, TLC

(* ------------------------------ bounds --------------------------------- *)
MaxPool == 2            \* additives in the pool handed to a search
MaxDepthBound == 2      \* largest max_depth of a direct search call
MaxEffectsBound == 2    \* largest max_effects of a direct search call
MaxDesired == 2         \* largest number of desired effects
MaxMix == 2             \* additives selected for one calculate_mix

(* --------------------------- program constants ------------------------- *)
DefaultMaxEffects == 8
DefaultMaxDepth == 20
HelperMaxDepth == 40    \* max_depth default of helpers.effect_path.pick_best_product

(* ------------------------------ catalog -------------------------------- *)
Effects == {"A", "B", "C", "D"}

\* ranks.json: position = unlock order
RankOrder == <<"r1", "r2", "r3">>

\* a rank name that is not in the rank order
UnknownRank == "r9"

\* Python's None, where a rank or an effect name is expected
None == "None"

\* additive name -> Effect (the grant list), Price (in half dollars) and Rank
Additives ==
  [ R |-> [Effect |-> <<"B">>,      Price |-> 3, Rank |-> "r1"],
    X |-> [Effect |-> <<>>,         Price |-> 2, Rank |-> "r2"],
    M |-> [Effect |-> <<"C", "D">>, Price |-> 5, Rank |-> "r3"] ]

\* additives.items() in dictionary order
AdditiveOrder == <<"R", "X", "M">>

\* additive objects with no replacement rules and nothing to grant: an empty
\* Effect list, and the Effect = None that the Additive schema permits
BareAdditives ==
  [ E |-> [Effect |-> <<>>,   Price |-> 1, Rank |-> "r1"],
    N |-> [Effect |-> None, Price |-> 1, Rank |-> "r1"] ]

\* the additives whose Effect is a single value, not a list
EffectNotList == {"N"}

\* additive objects that grant nothing: Q has two rules with one target that
\* a third rule frees, Y has a single rule
ChainAdditives ==
  [ Q |-> [Effect |-> <<>>, Price |-> 1, Rank |-> "r1"],
    Y |-> [Effect |-> <<>>, Price |-> 1, Rank |-> "r1"] ]

AdditiveObjects == Additives @@ BareAdditives @@ ChainAdditives

AdditiveNames == DOMAIN Additives

\* additive name -> {from effect -> to effect}
NestedRules ==
  [ R |-> ("A" :> "B") @@ ("B" :> "C"),
    X |-> ("A" :> "C") @@ ("B" :> "C"),
    Q |-> ("A" :> "C") @@ ("B" :> "C") @@ ("C" :> "D"),
    Y |-> ("A" :> "B") ]

\* products in dictionary order; Effect is the raw Effect string, Price is
\* in half dollars
Products ==
  << [Name |-> "P1", Effect |-> "A,B", Price |-> 7, Rank |-> "r1"],
     [Name |-> "P2", Effect |-> "A",   Price |-> 5, Rank |-> "r2"],
     [Name |-> "P3", Effect |-> "B",   Price |-> 4, Rank |-> "r3"],
     [Name |-> "P4", Effect |-> "A",   Price |-> 6, Rank |-> UnknownRank] >>

\* {e.strip() for e in attr.split(',')} for the Effect strings of the catalog
SplitComma == ("A,B" :> {"A", "B"}) @@ ("A" :> {"A"}) @@ ("B" :> {"B"})

ProductNames == {Products[i].Name : i \in 1..Len(Products)}

UnknownProduct == "Nope"
UnknownAdditive == "Zz"

(* ------------------------------ helpers -------------------------------- *)
Range(s) == {s[i] : i \in 1..Len(s)}

Contains(s, e) == \E i \in 1..Len(s) : s[i] = e

\* variant that leaves the order as it is
NotReversed(s) == s

RECURSIVE Reversed(_)
Reversed(s) == IF s = <<>> THEN <<>> ELSE Append(Reversed(Tail(s)), Head(s))

\* list.remove(e): drops the first occurrence
RECURSIVE ListRemove(_, _)
ListRemove(s, e) ==
  IF s = <<>> THEN <<>>
  ELSE IF Head(s) = e THEN Tail(s)
  ELSE <<Head(s)>> \o ListRemove(Tail(s), e)

\* every order in which the members of a set may be iterated
RECURSIVE IterOrders(_)
IterOrders(S) ==
  IF S = {} THEN {<<>>}
  ELSE UNION {{<<x>> \o p : p \in IterOrders(S \ {x})} : x \in S}

\* dict.get(name, {}) on the nested rules
RulesOf(additive_name) ==
  IF additive_name \in DOMAIN NestedRules THEN NestedRules[additive_name] ELSE <<>>

\* set(additive_obj.Effect if isinstance(Effect, list) else [Effect])
AdditiveEffects(additive_name) ==
  IF additive_name \in EffectNotList THEN {AdditiveObjects[additive_name].Effect}
  ELSE Range(AdditiveObjects[additive_name].Effect)

\* helpers/effect_utils.py extract_effects
extract_effects(entity) == SplitComma[entity.Effect]

ProductByName(name) == CHOOSE p \in Range(Products) : p.Name = name

(* ----------------- helpers/effect_path.py apply_additive ---------------- *)
\* variant of the first pass that does not look at the additions already planned
RECURSIVE FirstPassNoStagedCheck(_, _, _, _)
FirstPassNoStagedCheck(order, current_effects, rules, acc) ==
  IF order = <<>> THEN acc
  ELSE LET old == Head(order) IN
    IF old \in DOMAIN rules
    THEN LET new == rules[old] IN
         IF new \notin current_effects
         THEN FirstPassNoStagedCheck(Tail(order), current_effects, rules,
                [acc EXCEPT !.planned_removals = @ \cup {old},
                            !.planned_additions = @ \cup {new}])
         ELSE FirstPassNoStagedCheck(Tail(order), current_effects, rules,
                [acc EXCEPT !.skipped = Append(@, <<old, new>>)])
    ELSE FirstPassNoStagedCheck(Tail(order), current_effects, rules, acc)

\* first pass over list(current_effects), iterated in the order `order`
RECURSIVE FirstPass(_, _, _, _)
FirstPass(order, current_effects, rules, acc) ==
  IF order = <<>> THEN acc
  ELSE LET old == Head(order) IN
    IF old \in DOMAIN rules
    THEN LET new == rules[old] IN
         IF new \notin current_effects /\ new \notin acc.planned_additions
         THEN FirstPass(Tail(order), current_effects, rules,
                [acc EXCEPT !.planned_removals = @ \cup {old},
                            !.planned_additions = @ \cup {new}])
         ELSE FirstPass(Tail(order), current_effects, rules,
                [acc EXCEPT !.skipped = Append(@, <<old, new>>)])
    ELSE FirstPass(Tail(order), current_effects, rules, acc)

EmptyPlan == [planned_removals |-> {}, planned_additions |-> {}, skipped |-> <<>>]

\* [e for e in current_effects if e not in planned_removals] + list(planned_additions)
KeepAndAdd(order, planned_removals, addition_order) ==
  SelectSeq(order, LAMBDA e : e \notin planned_removals) \o addition_order

\* variant of the second pass that appends the target and keeps the source
RECURSIVE ReapplySkippedKeepsOld(_, _)
ReapplySkippedKeepsOld(new_effects_list, todo) ==
  IF todo = <<>> THEN new_effects_list
  ELSE LET old == Head(todo)[1]
           new == Head(todo)[2]
       IN IF Contains(new_effects_list, old) /\ ~Contains(new_effects_list, new)
          THEN ReapplySkippedKeepsOld(Append(new_effects_list, new), Tail(todo))
          ELSE ReapplySkippedKeepsOld(new_effects_list, Tail(todo))

\* for old, new in reversed(skipped): re-apply when old present and new absent
RECURSIVE ReapplySkipped(_, _)
ReapplySkipped(new_effects_list, todo) ==
  IF todo = <<>> THEN new_effects_list
  ELSE LET old == Head(todo)[1]
           new == Head(todo)[2]
       IN IF Contains(new_effects_list, old) /\ ~Contains(new_effects_list, new)
          THEN ReapplySkipped(Append(ListRemove(new_effects_list, old), new), Tail(todo))
          ELSE ReapplySkipped(new_effects_list, Tail(todo))

\* variant of the grant loop that forgets the capacity test
RECURSIVE AddGrantsNoCap(_, _, _)
AddGrantsNoCap(new_effects_list, grant_order, max_effects) ==
  IF grant_order = <<>> THEN new_effects_list
  ELSE LET ae == Head(grant_order) IN
       IF ~Contains(new_effects_list, ae)
       THEN AddGrantsNoCap(Append(new_effects_list, ae), Tail(grant_order), max_effects)
       ELSE AddGrantsNoCap(new_effects_list, Tail(grant_order), max_effects)

\* for ae in additive_effects: append when absent and below max_effects
RECURSIVE AddGrants(_, _, _)
AddGrants(new_effects_list, grant_order, max_effects) ==
  IF grant_order = <<>> THEN new_effects_list
  ELSE LET ae == Head(grant_order) IN
       IF ~Contains(new_effects_list, ae) /\ Len(new_effects_list) < max_effects
       THEN AddGrants(Append(new_effects_list, ae), Tail(grant_order), max_effects)
       ELSE AddGrants(new_effects_list, Tail(grant_order), max_effects)

\* new_effects_list before the final set(), for one choice of the three
\* set iteration orders (current effects, planned additions, grants)
ApplyList(current_effects, additive_name, max_effects, order, grant_order) ==
  LET rules == RulesOf(additive_name)
      plan == FirstPass(order, current_effects, rules, EmptyPlan)
  IN { AddGrants(
         ReapplySkipped(KeepAndAdd(order, plan.planned_removals, ao),
                        Reversed(plan.skipped)),
         grant_order, max_effects)
       : ao \in IterOrders(plan.planned_additions) }

\* every list apply_additive can build for these arguments
ApplyLists(current_effects, additive_name, max_effects) ==
  UNION { ApplyList(current_effects, additive_name, max_effects, order, go)
          : order \in IterOrders(current_effects),
            go \in IterOrders(AdditiveEffects(additive_name)) }

\* every set apply_additive can return for these arguments
apply_additive(current_effects, additive_name, max_effects) ==
  { Range(l) : l \in ApplyLists(current_effects, additive_name, max_effects) }

\* lines 44-76 for one choice of the iteration orders: the order the effect
\* set was walked in, the rules skipped by the first pass in the order they
\* were skipped, and new_effects_list after line 61, after line 68 and after
\* line 74
ApplyStagesFor(current_effects, additive_name, max_effects, order, grant_order) ==
  LET rules == RulesOf(additive_name)
      plan == FirstPass(order, current_effects, rules, EmptyPlan)
  IN { LET after_rules == KeepAndAdd(order, plan.planned_removals, ao)
           after_skipped == ReapplySkipped(after_rules, Reversed(plan.skipped))
       IN [order |-> order,
           grant_order |-> grant_order,
           skipped |-> plan.skipped,
           after_rules |-> after_rules,
           after_skipped |-> after_skipped,
           after_grants |-> AddGrants(after_skipped, grant_order, max_effects)]
       : ao \in IterOrders(plan.planned_additions) }

\* the stages of every run apply_additive can make for these arguments
ApplyStages(current_effects, additive_name, max_effects) ==
  UNION { ApplyStagesFor(current_effects, additive_name, max_effects, order, go)
          : order \in IterOrders(current_effects),
            go \in IterOrders(AdditiveEffects(additive_name)) }

(* ------------------------------- state --------------------------------- *)
VARIABLES
  current_rank,      \* RankManager.current_rank
  current_rank_index,\* RankManager.current_rank_index (0-based, None = -1)
  rank_call,         \* the last set_current_rank call: its argument, did it raise
  reverse_logic,     \* ReverseLogic: constructed yet, names in self.products
  mixer_logic,       \* MixerLogic: constructed yet, filtered_products/additives
  call,              \* two independent apply_additive calls with equal arguments
  other,             \* a second unmix running on the same ReverseLogic
  kind,              \* which entry point runs: "search", "unmix", "pick", "mix"
  pool,              \* the additives dict handed to the search, in dict order
  product_name,      \* product argument of unmix / the direct search / the mix
  desired_effects,   \* desired effect set
  max_effects,       \* max_effects of the running search or mix
  max_depth,         \* max_depth of the running search
  cancel_requested,  \* ReverseLogic.cancel_requested
  pc,                \* position of the entry point
  spc,               \* position inside forward_effect_search
  product_effects,   \* start set of the running search
  queue,             \* deque of <<effect set, additive sequence>>
  visited,           \* effect set -> depth
  cur,               \* the dequeued state being expanded
  idx,               \* position of the expansion loop in the pool
  path,              \* return value of forward_effect_search
  prod_idx,          \* position of pick_best_product's product loop
  best,              \* best_product / best_path / best_path_len
  result,            \* what the entry point returned
  additives_selected,\* additive names handed to calculate_mix
  mix,               \* effects list and remaining additives of calculate_mix
  hist               \* bookkeeping of what the run has done so far

extra == <<call, other>>
aside == <<current_rank, current_rank_index, rank_call, reverse_logic, mixer_logic, extra>>

vars == <<aside, kind, pool, product_name, desired_effects, max_effects, max_depth,
          cancel_requested, pc, spc, product_effects, queue, visited, cur, idx,
          path, prod_idx, best, result, additives_selected, mix, hist>>

inputs == <<kind, pool, product_name, desired_effects, additives_selected>>
searchVars == <<spc, product_effects, queue, visited, cur, idx, path>>

(* ------------------------ helpers/rank.py RankManager ------------------- *)
\* rank_order.index(rank_name), 0-based; defined for names in the rank order
RankIndex(rank_name) ==
  (CHOOSE i \in 1..Len(RankOrder) :
     RankOrder[i] = rank_name /\ \A j \in 1..(i - 1) : RankOrder[j] # rank_name) - 1

\* variant that lets a rank missing from the rank order through
is_rank_allowed_unknown_passes(required_rank, rank_index) ==
  IF required_rank = None THEN TRUE
  ELSE IF required_rank \notin Range(RankOrder) THEN TRUE
  ELSE RankIndex(required_rank) <= rank_index

\* _is_rank_allowed: None passes, a rank missing from the order (ValueError)
\* does not, any other rank passes when its index is <= current_rank_index
is_rank_allowed(required_rank, rank_index) ==
  IF required_rank = None THEN TRUE
  ELSE IF required_rank \notin Range(RankOrder) THEN FALSE
  ELSE RankIndex(required_rank) <= rank_index

get_accessible_product_names ==
  {Products[i].Name : i \in {j \in 1..Len(Products) :
                               is_rank_allowed(Products[j].Rank, current_rank_index)}}

get_accessible_additive_names ==
  {a \in AdditiveNames : is_rank_allowed(Additives[a].Rank, current_rank_index)}

\* variant that stores the new rank before it validates the name
SetCurrentRankStoresFirst ==
  /\ pc = "idle"
  /\ \E rank_name \in Range(RankOrder) \cup {UnknownRank} :
       /\ current_rank' = rank_name
       /\ current_rank_index' = IF rank_name \in Range(RankOrder)
                                THEN RankIndex(rank_name) ELSE -1
       /\ rank_call' = [arg |-> rank_name, raised |-> rank_name \notin Range(RankOrder)]
  /\ UNCHANGED <<reverse_logic, mixer_logic, extra, inputs, mix, max_effects, max_depth,
                 cancel_requested, pc, searchVars, prod_idx, best, result, hist>>

\* set_current_rank(rank_name), called while no operation runs: raises for a
\* name outside the rank order, stores the name and its index otherwise
SetCurrentRank ==
  /\ pc = "idle"
  /\ \E rank_name \in Range(RankOrder) \cup {UnknownRank} :
       IF rank_name \notin Range(RankOrder)
       THEN /\ rank_call' = [arg |-> rank_name, raised |-> TRUE]
            /\ UNCHANGED <<current_rank, current_rank_index>>
       ELSE /\ current_rank' = rank_name
            /\ current_rank_index' = RankIndex(rank_name)
            /\ rank_call' = [arg |-> rank_name, raised |-> FALSE]
  /\ UNCHANGED <<reverse_logic, mixer_logic, extra, inputs, mix, max_effects, max_depth,
                 cancel_requested, pc, searchVars, prod_idx, best, result, hist>>

\* sequences of distinct additive names, at most MaxPool long
Distinct(q) == \A i, j \in 1..Len(q) : i # j => q[i] # q[j]

RECURSIVE SeqsUpTo(_, _)
SeqsUpTo(S, n) ==
  IF n = 0 THEN {<<>>}
  ELSE SeqsUpTo(S, n - 1) \cup
       {Append(q, a) : q \in {r \in SeqsUpTo(S, n - 1) : Len(r) = n - 1}, a \in S}

Pools == {q \in SeqsUpTo(AdditiveNames, MaxPool) : Distinct(q)}

\* the UI starts an operation only with at least one effect ticked
DesiredSets == {S \in SUBSET Effects : S # {} /\ Cardinality(S) <= MaxDesired}

NonePath == [found |-> FALSE, steps |-> <<>>]
\* len = -1 stands for "no best yet" (None, or float("inf") in the helper)
NoBest == [product |-> "", steps |-> <<>>, len |-> -1, cost |-> 0]
NoResult == [tag |-> "pending", product |-> "", steps |-> <<>>,
             final_effects |-> {}, cost |-> [base_product |-> 0, additives |-> 0, total |-> 0]]
\* polled / applied / searched: the cancel predicate was polled, apply_additive
\* was called, forward_effect_search was called; exhausted / aborted: how a
\* search returned None; cancel_*: when cancel() was called; found: the
\* products a pick-best loop found a path for, with that path, in loop order
NoHist == [polled |-> FALSE, applied |-> FALSE, searched |-> FALSE,
           found |-> <<>>,
           exhausted |-> FALSE, aborted |-> FALSE, aborted_first |-> FALSE,
           cancel_in_op |-> FALSE, cancel_before |-> FALSE,
           cancel_pre_poll |-> FALSE, reenqueued |-> FALSE,
           since_cancel |-> 0, launched |-> FALSE, cancel_after_launch |-> FALSE]

NoMix == [effects |-> <<>>, todo |-> <<>>,
          stages |-> [name |-> "", after_rules |-> <<>>, after_skipped |-> <<>>,
                      after_grants |-> <<>>]]

\* the highest rank, which the application selects when rank filtering is off
TopRank == RankOrder[Len(RankOrder)]

NoRankCall == [arg |-> None, raised |-> FALSE]

NoStages == [order |-> <<>>, grant_order |-> <<>>, skipped |-> <<>>,
             after_rules |-> <<>>, after_skipped |-> <<>>, after_grants |-> <<>>]

NoCall == [current_effects |-> {}, additive_name |-> "", max_effects |-> 0,
           state |-> "off", first |-> {}, second |-> {}, stages |-> NoStages,
           effects |-> <<>>]

NoOther == [pc |-> "idle", cancel_wanted |-> FALSE, result |-> "pending"]

\* a rank is active and both logic objects were constructed under it
Init ==
  /\ current_rank = TopRank
  /\ current_rank_index = RankIndex(TopRank)
  /\ rank_call = [arg |-> TopRank, raised |-> FALSE]
  /\ reverse_logic = [built |-> TRUE,
                      products |-> {q.Name : q \in {p \in Range(Products) :
                                     is_rank_allowed(p.Rank, RankIndex(TopRank))}}]
  /\ mixer_logic = [built |-> TRUE,
                    filtered_products |-> {q.Name : q \in {p \in Range(Products) :
                                     is_rank_allowed(p.Rank, RankIndex(TopRank))}},
                    filtered_additives |-> {a \in AdditiveNames :
                                     is_rank_allowed(Additives[a].Rank, RankIndex(TopRank))}]
  /\ call = NoCall
  /\ other = NoOther
  /\ kind \in {"search", "unmix", "pick", "hpick", "mix"}
  /\ pool \in IF kind = "mix" THEN {<<>>} ELSE Pools
  /\ additives_selected \in IF kind = "mix"
                            THEN SeqsUpTo(AdditiveNames \cup {UnknownAdditive}, MaxMix)
                            ELSE {<<>>}
  /\ mix = NoMix
  /\ desired_effects \in IF kind = "mix" THEN {{}} ELSE DesiredSets
  /\ product_name \in IF kind \in {"pick", "hpick"} THEN {""}
                      ELSE IF kind = "search" THEN ProductNames \ {"P4"}
                      ELSE ProductNames \cup {UnknownProduct}
  /\ max_effects \in IF kind \in {"search", "mix"} THEN 1..MaxEffectsBound
                     ELSE {DefaultMaxEffects}
  /\ max_depth \in IF kind = "search" THEN 0..MaxDepthBound
                   ELSE IF kind = "hpick" THEN {HelperMaxDepth}
                   ELSE {DefaultMaxDepth}
  /\ cancel_requested = FALSE
  /\ pc = "idle"
  /\ spc = "off"
  /\ product_effects = {}
  /\ queue = <<>>
  /\ visited = <<>>
  /\ cur = <<{}, <<>>>>
  /\ idx = 0
  /\ path = NonePath
  /\ prod_idx = 0
  /\ best = NoBest
  /\ result = NoResult
  /\ hist = NoHist

(* ------------- helpers/effect_path.py forward_effect_search ------------- *)
\* variant that reads the head of the deque without removing it
PeekLeft(q) == q

\* queue.popleft()
PopLeft(q) == Tail(q)

\* desired_effects.issubset(current_effects)
GoalReached(desired, current_effects) == desired \subseteq current_effects

\* off-by-one variant of the depth test: expands states that sit at max_depth
DepthLimitOffByOne(additive_seq, depth) == Len(additive_seq) > depth

\* len(additive_seq) >= max_depth
DepthLimitReached(additive_seq, depth) == Len(additive_seq) >= depth

\* effects_frozen not in visited or len(additive_seq) + 1 < visited[effects_frozen]
\* variant of the enqueue test that also takes a rediscovery at the recorded depth
ShouldEnqueueNotStrict(vis, effects_frozen, additive_seq) ==
  \/ effects_frozen \notin DOMAIN vis
  \/ Len(additive_seq) + 1 <= vis[effects_frozen]

ShouldEnqueue(vis, effects_frozen, additive_seq) ==
  \/ effects_frozen \notin DOMAIN vis
  \/ Len(additive_seq) + 1 < vis[effects_frozen]

\* steps rebuilt from product_effects along additive_seq: every list of
\* (additive, effect set) pairs the reconstruction loop can produce
RECURSIVE ReconstructSteps(_, _, _)
ReconstructSteps(effects, additive_seq, cap) ==
  IF additive_seq = <<>> THEN {<<>>}
  ELSE UNION { { <<[addy |-> Head(additive_seq), effects |-> e2]>> \o rest
                 : rest \in ReconstructSteps(e2, Tail(additive_seq), cap) }
               : e2 \in apply_additive(effects, Head(additive_seq), cap) }

\* lines 101-103: the state a call of forward_effect_search starts in
SearchStart(start) ==
  /\ product_effects' = start
  /\ queue' = << <<start, <<>>>> >>
  /\ visited' = (start :> 0)
  /\ spc' = "loop"
  /\ cur' = <<{}, <<>>>>
  /\ idx' = 0
  /\ path' = NonePath

\* lines 105, 141-142: the queue is empty, return None
SearchExhausted ==
  /\ spc = "loop" /\ queue = <<>>
  /\ spc' = "returned"
  /\ path' = NonePath
  /\ hist' = [hist EXCEPT !.exhausted = TRUE]
  /\ UNCHANGED <<aside, inputs, mix, max_effects, max_depth, cancel_requested, pc,
                 product_effects, queue, visited, cur, idx, prod_idx, best, result>>

\* lines 106-113: dequeue, poll the cancel predicate, it is set: return None
SearchCancelled ==
  /\ spc = "loop" /\ queue # <<>>
  /\ cancel_requested
  /\ queue' = PopLeft(queue)
  /\ spc' = "returned"
  /\ path' = NonePath
  /\ hist' = [hist EXCEPT !.polled = TRUE, !.aborted = TRUE,
                          !.aborted_first = ~hist.polled]
  /\ UNCHANGED <<aside, inputs, mix, max_effects, max_depth, cancel_requested, pc,
                 product_effects, visited, cur, idx, prod_idx, best, result>>

\* variant with the goal test ahead of the cancellation poll
SearchGoalBeforePoll ==
  /\ spc = "loop" /\ queue # <<>>
  /\ GoalReached(desired_effects, Head(queue)[1])
  /\ queue' = PopLeft(queue)
  /\ cur' = Head(queue)
  /\ \E steps \in ReconstructSteps(product_effects, Head(queue)[2], max_effects) :
        path' = [found |-> TRUE, steps |-> steps]
  /\ spc' = "returned"
  /\ hist' = [hist EXCEPT !.polled = TRUE,
                          !.applied = @ \/ Head(queue)[2] # <<>>]
  /\ UNCHANGED <<aside, inputs, mix, max_effects, max_depth, cancel_requested, pc,
                 product_effects, visited, idx, prod_idx, best, result>>

\* lines 106-124: dequeue, not cancelled, goal reached: rebuild and return steps
SearchGoal ==
  /\ spc = "loop" /\ queue # <<>>
  /\ ~cancel_requested
  /\ GoalReached(desired_effects, Head(queue)[1])
  /\ queue' = PopLeft(queue)
  /\ cur' = Head(queue)
  /\ \E steps \in ReconstructSteps(product_effects, Head(queue)[2], max_effects) :
        path' = [found |-> TRUE, steps |-> steps]
  /\ spc' = "returned"
  /\ hist' = [hist EXCEPT !.polled = TRUE,
                          !.applied = @ \/ Head(queue)[2] # <<>>]
  /\ UNCHANGED <<aside, inputs, mix, max_effects, max_depth, cancel_requested, pc,
                 product_effects, visited, idx, prod_idx, best, result>>

\* lines 106-129: dequeue, not cancelled, no goal, depth limit: continue
SearchDepthSkip ==
  /\ spc = "loop" /\ queue # <<>>
  /\ ~cancel_requested
  /\ ~GoalReached(desired_effects, Head(queue)[1])
  /\ DepthLimitReached(Head(queue)[2], max_depth)
  /\ queue' = PopLeft(queue)
  /\ cur' = Head(queue)
  /\ hist' = [hist EXCEPT !.polled = TRUE]
  /\ UNCHANGED <<aside, inputs, mix, max_effects, max_depth, cancel_requested, pc, spc,
                 product_effects, visited, idx, path, prod_idx, best, result>>

\* variant that goes on to expand without polling the cancel predicate
SearchBeginExpandUnpolled ==
  /\ spc = "loop" /\ queue # <<>>
  /\ ~GoalReached(desired_effects, Head(queue)[1])
  /\ ~DepthLimitReached(Head(queue)[2], max_depth)
  /\ queue' = PopLeft(queue)
  /\ cur' = Head(queue)
  /\ idx' = 1
  /\ spc' = IF pool = <<>> THEN "loop" ELSE "expand"
  /\ hist' = [hist EXCEPT !.polled = TRUE]
  /\ UNCHANGED <<aside, inputs, mix, max_effects, max_depth, cancel_requested, pc,
                 product_effects, visited, path, prod_idx, best, result>>

\* lines 106-132: dequeue, not cancelled, no goal, below the depth limit:
\* enter the expansion loop over additives.items()
SearchBeginExpand ==
  /\ spc = "loop" /\ queue # <<>>
  /\ ~cancel_requested
  /\ ~GoalReached(desired_effects, Head(queue)[1])
  /\ ~DepthLimitReached(Head(queue)[2], max_depth)
  /\ queue' = PopLeft(queue)
  /\ cur' = Head(queue)
  /\ idx' = 1
  /\ spc' = IF pool = <<>> THEN "loop" ELSE "expand"
  /\ hist' = [hist EXCEPT !.polled = TRUE]
  /\ UNCHANGED <<aside, inputs, mix, max_effects, max_depth, cancel_requested, pc,
                 product_effects, visited, path, prod_idx, best, result>>

\* lines 132-139: one iteration of the expansion loop
SearchExpand ==
  /\ spc = "expand"
  /\ \E new_effects \in apply_additive(cur[1], pool[idx], max_effects) :
        /\ IF ShouldEnqueue(visited, new_effects, cur[2])
           THEN /\ visited' = (new_effects :> (Len(cur[2]) + 1)) @@ visited
                /\ queue' = Append(queue, <<new_effects, Append(cur[2], pool[idx])>>)
           ELSE UNCHANGED <<visited, queue>>
        /\ hist' = [hist EXCEPT !.applied = TRUE,
                                !.since_cancel =
                                   IF cancel_requested /\ @ <= Len(pool) THEN @ + 1 ELSE @,
                                !.reenqueued = @ \/ (/\ new_effects \in DOMAIN visited
                                                     /\ ShouldEnqueue(visited, new_effects,
                                                                      cur[2]))]
  /\ IF idx = Len(pool) THEN spc' = "loop" /\ idx' = idx
                        ELSE spc' = "expand" /\ idx' = idx + 1
  /\ UNCHANGED <<aside, inputs, mix, max_effects, max_depth, cancel_requested, pc,
                 product_effects, cur, path, prod_idx, best, result>>

SearchStep ==
  \/ SearchExhausted \/ SearchCancelled \/ SearchGoal
  \/ SearchDepthSkip \/ SearchBeginExpand \/ SearchExpand

(* ------------- helpers/pricing_manager.py calculate_price --------------- *)
RECURSIVE SumPrices(_)
SumPrices(additive_names) ==
  IF additive_names = <<>> THEN 0
  ELSE (IF Head(additive_names) \in AdditiveNames
        THEN Additives[Head(additive_names)].Price ELSE 0)
       + SumPrices(Tail(additive_names))

\* round() of an amount given in half dollars: nearest dollar, ties to even
PyRound(halves) ==
  LET q == halves \div 2 IN
  IF halves % 2 = 0 THEN q ELSE IF q % 2 = 0 THEN q ELSE q + 1

\* cost part of calculate_price followed by the callers' rounding and renaming
RoundedCost(base_product, additive_names) ==
  LET base_cost == IF base_product \in ProductNames
                   THEN ProductByName(base_product).Price ELSE 0
      additive_cost == SumPrices(additive_names)
  IN [base_product |-> PyRound(base_cost),
      additives |-> PyRound(additive_cost),
      total |-> PyRound(base_cost + additive_cost)]

(* ---------------------- logic/reverse_logic.py -------------------------- *)
\* self.products.items(): the products kept by __init__, in dictionary order
SelfProducts == SelectSeq(Products, LAMBDA p : p.Name \in reverse_logic.products)

\* the accessible additives in dictionary order, as __init__ keeps them
RECURSIVE FilterOrder(_, _)
FilterOrder(order, keep) ==
  IF order = <<>> THEN <<>>
  ELSE (IF Head(order) \in keep THEN <<Head(order)>> ELSE <<>>)
       \o FilterOrder(Tail(order), keep)

\* ReverseLogic.__init__ lines 47-67 on the shared RankManager; the rank
\* comparison needs an active rank
ConstructReverse ==
  /\ pc = "idle" /\ current_rank # None
  /\ reverse_logic' = [built |-> TRUE, products |-> get_accessible_product_names]
  /\ pool' = FilterOrder(AdditiveOrder, get_accessible_additive_names)
  /\ cancel_requested' = FALSE
  /\ UNCHANGED <<current_rank, current_rank_index, rank_call, mixer_logic, extra, kind,
                 product_name, desired_effects, additives_selected, mix, max_effects,
                 max_depth, pc, searchVars, prod_idx, best, result, hist>>

\* Python truthiness of the search's return value: None and [] are falsy
Truthy(p) == p.found /\ p.steps # <<>>

AdditiveNamesOf(steps) == [i \in 1..Len(steps) |-> steps[i].addy]

\* path[-1][1] if path else set()
FinalEff(steps) == IF steps = <<>> THEN {} ELSE steps[Len(steps)].effects

SuccessResult(name, steps) ==
  [tag |-> "ok", product |-> name, steps |-> steps,
   final_effects |-> FinalEff(steps),
   cost |-> RoundedCost(name, AdditiveNamesOf(steps))]

ErrorResult(t) == [NoResult EXCEPT !.tag = t]

\* ReverseLogic.cancel, called from the UI thread at any time (calculate_mix
\* belongs to MixerLogic and the helper pick_best_product passes no cancel
\* predicate to its searches: neither reads the flag)
Cancel ==
  /\ kind \notin {"mix", "hpick"} /\ pc # "done"
  /\ reverse_logic.built
  /\ ~cancel_requested
  /\ cancel_requested' = TRUE
  /\ hist' = [hist EXCEPT !.cancel_in_op = @ \/ pc # "idle",
                          !.cancel_before = @ \/ pc = "idle",
                          !.cancel_pre_poll = @ \/ ~hist.polled,
                          !.since_cancel = 0,
                          !.cancel_after_launch = @ \/ hist.launched]
  /\ UNCHANGED <<aside, inputs, mix, max_effects, max_depth, pc, searchVars, prod_idx, best, result>>

\* ReverseLogic.reset_cancel_flag, called by the UI before it launches a worker
ResetCancelFlag ==
  /\ kind \notin {"mix", "hpick"} /\ pc = "idle"
  /\ reverse_logic.built
  /\ cancel_requested
  /\ cancel_requested' = FALSE
  /\ hist' = [hist EXCEPT !.cancel_before = FALSE, !.cancel_pre_poll = FALSE]
  /\ UNCHANGED <<aside, inputs, mix, max_effects, max_depth, pc, searchVars, prod_idx, best, result>>

\* a direct call of forward_effect_search with a cancel predicate
CallSearch ==
  /\ kind = "search" /\ pc = "idle"
  /\ SearchStart(extract_effects(ProductByName(product_name)))
  /\ pc' = "search"
  /\ hist' = [hist EXCEPT !.searched = TRUE]
  /\ UNCHANGED <<aside, inputs, mix, max_effects, max_depth, cancel_requested, prod_idx, best, result>>

ReturnSearch ==
  /\ kind = "search" /\ pc = "search" /\ spc = "returned"
  /\ result' = IF path.found
               THEN [NoResult EXCEPT !.tag = "path", !.steps = path.steps,
                                     !.final_effects = FinalEff(path.steps)]
               ELSE ErrorResult("none")
  /\ pc' = "done"
  /\ UNCHANGED <<aside, inputs, mix, max_effects, max_depth, cancel_requested, searchVars,
                 prod_idx, best, hist>>

\* unmix lines 112-133: reset the flag, look the product up, start the search
UnmixEnter ==
  /\ kind = "unmix" /\ pc = "idle"
  /\ reverse_logic.built
  /\ cancel_requested' = FALSE
  /\ IF product_name \notin reverse_logic.products
     THEN /\ result' = ErrorResult("unknown_product")
          /\ pc' = "done"
          /\ UNCHANGED <<searchVars, hist>>
     ELSE /\ SearchStart(extract_effects(ProductByName(product_name)))
          /\ pc' = "search"
          /\ hist' = [hist EXCEPT !.searched = TRUE]
          /\ UNCHANGED result
  /\ UNCHANGED <<aside, inputs, mix, max_effects, max_depth, prod_idx, best>>

\* unmix lines 135-184: what unmix returns once the search has returned
UnmixReturn ==
  /\ kind = "unmix" /\ pc = "search" /\ spc = "returned"
  /\ result' = IF cancel_requested THEN ErrorResult("cancelled")
               ELSE IF ~Truthy(path) THEN ErrorResult("no_path")
               ELSE SuccessResult(product_name, path.steps)
  /\ pc' = "done"
  /\ UNCHANGED <<aside, inputs, mix, max_effects, max_depth, cancel_requested, searchVars,
                 prod_idx, best, hist>>

\* A second unmix call on the same ReverseLogic, started from another worker
\* thread while the first one runs. Of its search only what touches the shared
\* object is kept: it reads self.cancel_requested at its polls and returns.

\* unmix lines 112-133 of the second call: reset the shared flag, start searching
OtherEnter ==
  /\ kind = "unmix" /\ pc = "search"
  /\ other.pc = "idle"
  /\ cancel_requested' = FALSE
  /\ other' = [other EXCEPT !.pc = "search"]
  /\ UNCHANGED <<current_rank, current_rank_index, rank_call, reverse_logic,
                 mixer_logic, call, inputs, mix, max_effects, max_depth, pc,
                 searchVars, prod_idx, best, result, hist>>

\* ReverseLogic.cancel lines 75-80, requested for the second call
OtherCancel ==
  /\ other.pc \in {"search", "returned"}
  /\ ~cancel_requested
  /\ cancel_requested' = TRUE
  /\ other' = [other EXCEPT !.cancel_wanted = TRUE]
  /\ hist' = [hist EXCEPT !.since_cancel = 0]
  /\ UNCHANGED <<current_rank, current_rank_index, rank_call, reverse_logic,
                 mixer_logic, call, inputs, mix, max_effects, max_depth, pc,
                 searchVars, prod_idx, best, result>>

\* the second call's forward_effect_search returns (a set flag ends it at its
\* next poll, lines 111-113; otherwise it ends with or without a path)
OtherSearchReturns ==
  /\ other.pc = "search"
  /\ other' = [other EXCEPT !.pc = "returned"]
  /\ UNCHANGED <<current_rank, current_rank_index, rank_call, reverse_logic,
                 mixer_logic, call, inputs, mix, max_effects, max_depth,
                 cancel_requested, pc, searchVars, prod_idx, best, result, hist>>

\* unmix lines 135-184 of the second call
OtherReturn ==
  /\ other.pc = "returned"
  /\ other' = [other EXCEPT !.pc = "done",
                            !.result = IF cancel_requested THEN "cancelled"
                                       ELSE "finished"]
  /\ UNCHANGED <<current_rank, current_rank_index, rank_call, reverse_logic,
                 mixer_logic, call, inputs, mix, max_effects, max_depth,
                 cancel_requested, pc, searchVars, prod_idx, best, result, hist>>

\* pick_best_product lines 214-220: products whose base effects hold all desired
DirectMatches ==
  SelectSeq(SelfProducts, LAMBDA p : desired_effects \subseteq extract_effects(p))

\* variant that takes the first direct match without sorting
FirstDirect(direct_matches) == direct_matches[1]

\* direct_matches.sort(key=len of base effects)[0]: stable, so the first
\* product in dict order among those with the fewest base effects
BestDirect(direct_matches) ==
  LET size(i) == Cardinality(extract_effects(direct_matches[i]))
      k == CHOOSE i \in 1..Len(direct_matches) :
             /\ \A j \in 1..Len(direct_matches) : size(i) <= size(j)
             /\ \A j \in 1..(i - 1) : size(j) > size(i)
  IN direct_matches[k]

\* pick_best_product lines 214-255: a direct match exists
PickDirect ==
  /\ kind = "pick" /\ pc = "idle"
  /\ DirectMatches # <<>>
  /\ LET best_prod == BestDirect(DirectMatches) IN
       result' = [tag |-> "ok", product |-> best_prod.Name, steps |-> <<>>,
                  final_effects |-> extract_effects(best_prod),
                  cost |-> RoundedCost(best_prod.Name, <<>>)]
  /\ pc' = "done"
  /\ UNCHANGED <<aside, inputs, mix, max_effects, max_depth, cancel_requested, searchVars,
                 prod_idx, best, hist>>

\* pick_best_product lines 214-222, 257-262: no direct match, enter the loop
PickNoDirect ==
  /\ kind = "pick" /\ pc = "idle"
  /\ DirectMatches = <<>>
  /\ prod_idx' = 1
  /\ best' = NoBest
  /\ pc' = "pickloop"
  /\ UNCHANGED <<aside, inputs, mix, max_effects, max_depth, cancel_requested, searchVars,
                 result, hist>>

\* pick_best_product lines 262-275: next product, skip it or search from it
PickNextProduct ==
  /\ kind = "pick" /\ pc = "pickloop"
  /\ prod_idx <= Len(SelfProducts)
  /\ LET base_eff == extract_effects(SelfProducts[prod_idx]) IN
       IF base_eff = {}
       THEN /\ prod_idx' = prod_idx + 1
            /\ UNCHANGED <<pc, searchVars, hist>>
       ELSE /\ SearchStart(base_eff)
            /\ pc' = "search"
            /\ hist' = [hist EXCEPT !.searched = TRUE]
            /\ UNCHANGED prod_idx
  /\ UNCHANGED <<aside, inputs, mix, max_effects, max_depth, cancel_requested, best, result>>

\* pick_best_product lines 277-287: the search for one product has returned
PickAfterSearch ==
  /\ kind = "pick" /\ pc = "search" /\ spc = "returned"
  /\ IF cancel_requested
     THEN /\ result' = ErrorResult("cancelled")
          /\ pc' = "done"
          /\ UNCHANGED <<best, prod_idx, spc, hist>>
     ELSE /\ best' = IF Truthy(path) /\ (best.len = -1 \/ Len(path.steps) < best.len)
                     THEN [product |-> SelfProducts[prod_idx].Name,
                           steps |-> path.steps, len |-> Len(path.steps),
                           cost |-> 0]
                     ELSE best
          /\ hist' = IF Truthy(path)
                     THEN [hist EXCEPT !.found = Append(@,
                             [product |-> SelfProducts[prod_idx].Name,
                              steps |-> path.steps])]
                     ELSE hist
          /\ prod_idx' = prod_idx + 1
          /\ pc' = "pickloop"
          /\ spc' = "off"
          /\ UNCHANGED result
  /\ UNCHANGED <<aside, inputs, mix, max_effects, max_depth, cancel_requested,
                 product_effects, queue, visited, cur, idx, path>>

\* pick_best_product lines 289-329: the loop is over
PickFinish ==
  /\ kind = "pick" /\ pc = "pickloop"
  /\ prod_idx > Len(SelfProducts)
  /\ result' = IF best.product = "" THEN ErrorResult("no_product")
               ELSE SuccessResult(best.product, best.steps)
  /\ pc' = "done"
  /\ UNCHANGED <<aside, inputs, mix, max_effects, max_depth, cancel_requested, searchVars,
                 prod_idx, best, hist>>

(* ------------- helpers/effect_path.py pick_best_product ----------------- *)
\* lines 190-195: set(Effect) for a list, {Effect} for anything else: the
\* catalog's Effect strings are taken whole, not split at the commas
HelperEffects(product_data) == {product_data.Effect}

\* helpers/effect_path.py calculate_path_cost: the product's price plus the
\* price of every additive occurrence on the path (half dollars, unrounded)
calculate_path_cost(name, steps) ==
  ProductByName(name).Price + SumPrices(AdditiveNamesOf(steps))

\* variant of the comparison without the cost tie-break
ShorterOnly(path_length, total_cost, b) ==
  b.len = -1 \/ path_length < b.len

\* line 218: path_length < best_length or (equal and total_cost < best_cost)
StrictlyBetter(path_length, total_cost, b) ==
  \/ b.len = -1
  \/ path_length < b.len
  \/ (path_length = b.len /\ total_cost < b.cost)

\* lines 182-186: initialise the best and enter the loop over products.items()
HPickEnter ==
  /\ kind = "hpick" /\ pc = "idle"
  /\ prod_idx' = 1
  /\ best' = NoBest
  /\ pc' = "pickloop"
  /\ UNCHANGED <<aside, inputs, mix, max_effects, max_depth, cancel_requested, searchVars,
                 result, hist>>

\* lines 188-206: next product, search from its effects (no cancel predicate)
HPickNextProduct ==
  /\ kind = "hpick" /\ pc = "pickloop"
  /\ prod_idx <= Len(Products)
  /\ SearchStart(HelperEffects(Products[prod_idx]))
  /\ pc' = "search"
  /\ hist' = [hist EXCEPT !.searched = TRUE]
  /\ UNCHANGED <<aside, inputs, mix, max_effects, max_depth, cancel_requested, prod_idx,
                 best, result>>

\* lines 208-223: the search for one product has returned
HPickAfterSearch ==
  /\ kind = "hpick" /\ pc = "search" /\ spc = "returned"
  /\ IF ~path.found
     THEN UNCHANGED <<best, hist>>
     ELSE LET name == Products[prod_idx].Name
              path_length == Len(path.steps)
              total_cost == calculate_path_cost(name, path.steps)
          IN /\ best' = IF StrictlyBetter(path_length, total_cost, best)
                        THEN [product |-> name, steps |-> path.steps,
                              len |-> path_length, cost |-> total_cost]
                        ELSE best
             /\ hist' = [hist EXCEPT !.found = Append(@,
                           [product |-> name, steps |-> path.steps])]
  /\ prod_idx' = prod_idx + 1
  /\ pc' = "pickloop"
  /\ spc' = "off"
  /\ UNCHANGED <<aside, inputs, mix, max_effects, max_depth, cancel_requested,
                 product_effects, queue, visited, cur, idx, path, result>>

\* lines 225-230: return (best_product, best_path, best_cost); the tag tells
\* whether best_product and best_path are None, cost.kind what best_cost is: a
\* number, or the float("inf") it was initialised to
HPickFinish ==
  /\ kind = "hpick" /\ pc = "pickloop"
  /\ prod_idx > Len(Products)
  /\ result' = [NoResult EXCEPT
                  !.tag = IF best.product = "" THEN "none" ELSE "picked",
                  !.product = best.product,
                  !.steps = best.steps,
                  !.final_effects = FinalEff(best.steps),
                  !.cost = [base_product |-> 0, additives |-> 0, total |-> best.cost,
                            kind |-> IF best.len = -1 THEN "inf" ELSE "number"]]
  /\ pc' = "done"
  /\ UNCHANGED <<aside, inputs, mix, max_effects, max_depth, cancel_requested, searchVars,
                 prod_idx, best, hist>>

(* ---------------- logic/mixer_logic.py calculate_mix -------------------- *)
\* MixerLogic.__init__ line 63, _filter_accessible_items lines 83-100
ConstructMixer ==
  /\ pc = "idle" /\ current_rank # None
  /\ mixer_logic' = [built |-> TRUE,
                     filtered_products |-> get_accessible_product_names \cap ProductNames,
                     filtered_additives |-> get_accessible_additive_names \cap AdditiveNames]
  /\ UNCHANGED <<current_rank, current_rank_index, rank_call, reverse_logic, extra,
                 inputs,
                 mix, max_effects, max_depth, cancel_requested, pc, searchVars,
                 prod_idx, best, result, hist>>

\* base_effect = getattr(base_product, "Effect", []) or []; a str becomes [str]
MixBaseEffects(base_product) ==
  IF base_product.Effect = "" THEN <<>> ELSE <<base_product.Effect>>

\* lines 174-196: the product itself (when it has effects) followed by every
\* selected additive that exists, each with its grant list and its rules
RECURSIVE MixAdditives(_)
MixAdditives(selected) ==
  IF selected = <<>> THEN <<>>
  ELSE IF Head(selected) \notin AdditiveNames THEN MixAdditives(Tail(selected))
  ELSE << [Name |-> Head(selected),
           Effect |-> Additives[Head(selected)].Effect,
           EffectRules |-> RulesOf(Head(selected))] >>
       \o MixAdditives(Tail(selected))

AllAdditives(base_product, selected) ==
  (IF MixBaseEffects(base_product) = <<>> THEN <<>>
   ELSE << [Name |-> base_product.Name,
            Effect |-> MixBaseEffects(base_product),
            EffectRules |-> <<>>] >>)
  \o MixAdditives(selected)

\* lines 198-223: one additive applied to the effects list; the lists after
\* the rule pass, after the skipped rules and after the grants
MixStages(effects, additive, cap) ==
  LET plan == FirstPass(effects, Range(effects), additive.EffectRules, EmptyPlan)
  IN { LET after_rules == KeepAndAdd(effects, plan.planned_removals, ao)
           after_skipped == ReapplySkipped(after_rules, Reversed(plan.skipped))
       IN [name |-> additive.Name,
           after_rules |-> after_rules,
           after_skipped |-> after_skipped,
           after_grants |-> AddGrants(after_skipped, additive.Effect, cap)]
       : ao \in IterOrders(plan.planned_additions) }

\* lines 164-196 (and 254-262 for an unknown base product)
MixEnter ==
  /\ kind = "mix" /\ pc = "idle"
  /\ IF product_name \notin ProductNames
     THEN /\ result' = ErrorResult("mix_failed")
          /\ pc' = "done"
          /\ UNCHANGED mix
     ELSE /\ mix' = [NoMix EXCEPT
                       !.effects = MixBaseEffects(ProductByName(product_name)),
                       !.todo = AllAdditives(ProductByName(product_name),
                                             additives_selected)]
          /\ pc' = "mixing"
          /\ UNCHANGED result
  /\ UNCHANGED <<aside, inputs, max_effects, max_depth, cancel_requested, searchVars,
                 prod_idx, best, hist>>

\* lines 198-223: one iteration of `for additive in all_additives`
MixStep ==
  /\ kind = "mix" /\ pc = "mixing"
  /\ mix.todo # <<>>
  /\ \E st \in MixStages(mix.effects, Head(mix.todo), max_effects) :
        mix' = [effects |-> st.after_grants, todo |-> Tail(mix.todo), stages |-> st]
  /\ UNCHANGED <<aside, inputs, max_effects, max_depth, cancel_requested, pc, searchVars,
                 prod_idx, best, result, hist>>

\* lines 225-252: pricing and the returned tuple
MixReturn ==
  /\ kind = "mix" /\ pc = "mixing"
  /\ mix.todo = <<>>
  /\ result' = [tag |-> "mixed", product |-> product_name, steps |-> <<>>,
                final_effects |-> Range(mix.effects),
                cost |-> RoundedCost(product_name,
                           SelectSeq(additives_selected, LAMBDA a : a # ""))]
  /\ pc' = "done"
  /\ UNCHANGED <<aside, inputs, mix, max_effects, max_depth, cancel_requested, searchVars,
                 prod_idx, best, hist>>

Next ==
  \/ SearchStep
  \/ Cancel \/ ResetCancelFlag
  \/ CallSearch \/ ReturnSearch
  \/ UnmixEnter \/ UnmixReturn
  \/ PickDirect \/ PickNoDirect \/ PickNextProduct \/ PickAfterSearch \/ PickFinish
  \/ HPickEnter \/ HPickNextProduct \/ HPickAfterSearch \/ HPickFinish
  \/ MixEnter \/ MixStep \/ MixReturn

Spec == Init /\ [][Next]_vars

\* two overlapping unmix calls on one ReverseLogic. SearchDepthSkip is absent
\* as in RankNext: unmix searches with max_depth 20.
OverlapInit ==
  /\ Init
  /\ kind = "unmix"
  /\ product_name \in reverse_logic.products

OverlapNext ==
  \/ Cancel \/ ResetCancelFlag
  \/ UnmixEnter \/ UnmixReturn
  \/ SearchExhausted \/ SearchCancelled \/ SearchGoal
  \/ SearchBeginExpand \/ SearchExpand
  \/ OtherEnter \/ OtherCancel \/ OtherSearchReturns \/ OtherReturn

OverlapSpec == OverlapInit /\ [][OverlapNext]_vars

\* the hand-off of an unmix from the UI thread to a worker thread

\* ui/reverse_ui.py handle_unmix lines 454-486: show the loading dialog (whose
\* cancel button calls cancel_search, i.e. ReverseLogic.cancel), reset the
\* flag, create the worker and start its thread
HandleUnmix ==
  /\ kind = "unmix" /\ pc = "idle"
  /\ reverse_logic.built
  /\ ~hist.launched
  /\ cancel_requested' = FALSE
  /\ hist' = [hist EXCEPT !.launched = TRUE, !.cancel_before = FALSE,
                          !.cancel_pre_poll = FALSE]
  /\ UNCHANGED <<aside, inputs, mix, max_effects, max_depth, pc, searchVars,
                 prod_idx, best, result>>

\* ui/reverse_ui.py UnmixWorker.run lines 64-68, on the worker thread once it
\* was started: the call of unmix up to the start of its search
WorkerRun ==
  /\ hist.launched
  /\ UnmixEnter

HandoffInit ==
  /\ Init
  /\ kind = "unmix"
  /\ product_name \in reverse_logic.products

HandoffNext ==
  \/ HandleUnmix \/ Cancel
  \/ WorkerRun \/ UnmixReturn
  \/ SearchExhausted \/ SearchCancelled \/ SearchGoal
  \/ SearchBeginExpand \/ SearchExpand

HandoffSpec == HandoffInit /\ [][HandoffNext]_vars

\* apply_additive as a function: two independent calls with the same effect
\* set, additive and max_effects
ApplyInit ==
  /\ current_rank = None
  /\ current_rank_index = -1
  /\ rank_call = NoRankCall
  /\ reverse_logic = [built |-> FALSE, products |-> {}]
  /\ mixer_logic = [built |-> FALSE, filtered_products |-> {}, filtered_additives |-> {}]
  /\ call \in [current_effects : SUBSET Effects,
                additive_name : DOMAIN AdditiveObjects,
                max_effects : (1..MaxEffectsBound) \cup {DefaultMaxEffects},
                state : {"ready"}, first : {{}}, second : {{}},
                stages : {NoStages}, effects : {<<>>}]
  /\ other = NoOther
  /\ kind = "apply"
  /\ pool = <<>>
  /\ additives_selected = <<>>
  /\ mix = NoMix
  /\ desired_effects = {}
  /\ product_name = ""
  /\ max_effects = DefaultMaxEffects
  /\ max_depth = DefaultMaxDepth
  /\ cancel_requested = FALSE
  /\ pc = "idle"
  /\ spc = "off"
  /\ product_effects = {}
  /\ queue = <<>>
  /\ visited = <<>>
  /\ cur = <<{}, <<>>>>
  /\ idx = 0
  /\ path = NonePath
  /\ prod_idx = 0
  /\ best = NoBest
  /\ result = NoResult
  /\ hist = NoHist

\* helpers/effect_path.py lines 22-78: the first of the two calls
ApplyFirst ==
  /\ call.state = "ready"
  /\ \E st \in ApplyStages(call.current_effects, call.additive_name,
                            call.max_effects) :
       call' = [call EXCEPT !.first = Range(st.after_grants), !.stages = st,
                            !.state = "one"]
  /\ UNCHANGED <<current_rank, current_rank_index, rank_call, reverse_logic,
                 mixer_logic, other, inputs, mix, max_effects, max_depth,
                 cancel_requested, pc, searchVars, prod_idx, best, result, hist>>

\* helpers/effect_path.py lines 22-78: the second call, same arguments
ApplySecond ==
  /\ call.state = "one"
  /\ \E new_effects \in apply_additive(call.current_effects, call.additive_name,
                                       call.max_effects) :
       call' = [call EXCEPT !.second = new_effects, !.state = "done"]
  /\ UNCHANGED <<current_rank, current_rank_index, rank_call, reverse_logic,
                 mixer_logic, other, inputs, mix, max_effects, max_depth,
                 cancel_requested, pc, searchVars, prod_idx, best, result, hist>>

\* logic/mixer_logic.py lines 183-196: the entry calculate_mix builds for an
\* additive object: `Effect or []`, a single value wrapped in a list
MixAdditiveEntry(additive_name) ==
  LET Effect == AdditiveObjects[additive_name].Effect
  IN [Name |-> additive_name,
      Effect |-> IF additive_name \in EffectNotList
                 THEN (IF Effect = None THEN <<>> ELSE <<Effect>>)
                 ELSE Effect,
      EffectRules |-> RulesOf(additive_name)]

\* logic/mixer_logic.py lines 198-223: one iteration of the mixing loop for
\* the same additive and capacity, on a list that holds the same effects
ApplyMixStep ==
  /\ call.state = "done"
  /\ \E effects \in IterOrders(call.current_effects) :
       \E st \in MixStages(effects, MixAdditiveEntry(call.additive_name),
                           call.max_effects) :
          /\ call' = [call EXCEPT !.effects = effects, !.state = "mixed"]
          /\ mix' = [effects |-> st.after_grants, todo |-> <<>>, stages |-> st]
  /\ UNCHANGED <<current_rank, current_rank_index, rank_call, reverse_logic,
                 mixer_logic, other, inputs, max_effects, max_depth,
                 cancel_requested, pc, searchVars, prod_idx, best, result, hist>>

ApplyNext == ApplyFirst \/ ApplySecond \/ ApplyMixStep

ApplySpec == ApplyInit /\ [][ApplyNext]_vars

\* forward_effect_search called directly, without a cancel predicate, with a
\* pool drawn from every additive object
VisitPools == {q \in SeqsUpTo(DOMAIN AdditiveObjects \ DOMAIN BareAdditives, MaxPool) :
                 Distinct(q)}

VisitInit ==
  /\ current_rank = None
  /\ current_rank_index = -1
  /\ rank_call = NoRankCall
  /\ reverse_logic = [built |-> FALSE, products |-> {}]
  /\ mixer_logic = [built |-> FALSE, filtered_products |-> {}, filtered_additives |-> {}]
  /\ call = NoCall
  /\ other = NoOther
  /\ kind = "search"
  /\ pool \in VisitPools
  /\ additives_selected = <<>>
  /\ mix = NoMix
  /\ desired_effects \in DesiredSets
  /\ product_name \in ProductNames \ {"P4"}
  /\ max_effects \in 1..MaxEffectsBound
  /\ max_depth \in 0..MaxDepthBound
  /\ cancel_requested = FALSE
  /\ pc = "idle"
  /\ spc = "off"
  /\ product_effects = {}
  /\ queue = <<>>
  /\ visited = <<>>
  /\ cur = <<{}, <<>>>>
  /\ idx = 0
  /\ path = NonePath
  /\ prod_idx = 0
  /\ best = NoBest
  /\ result = NoResult
  /\ hist = NoHist

VisitNext ==
  \/ CallSearch \/ ReturnSearch
  \/ SearchExhausted \/ SearchGoal \/ SearchDepthSkip
  \/ SearchBeginExpand \/ SearchExpand

VisitSpec == VisitInit /\ [][VisitNext]_vars

\* the rank filter: ranks are chosen and logic objects constructed before an
\* unmix runs. SearchDepthSkip is absent: unmix searches with max_depth 20 and
\* a state at depth 20 would need 20 distinct effect sets before it.
RankInit ==
  /\ current_rank = None
  /\ current_rank_index = -1
  /\ rank_call = NoRankCall
  /\ reverse_logic = [built |-> FALSE, products |-> {}]
  /\ mixer_logic = [built |-> FALSE, filtered_products |-> {}, filtered_additives |-> {}]
  /\ call = NoCall
  /\ other = NoOther
  /\ kind = "unmix"
  /\ pool = <<>>
  /\ additives_selected = <<>>
  /\ mix = NoMix
  /\ desired_effects \in DesiredSets
  /\ product_name \in ProductNames \cup {UnknownProduct}
  /\ max_effects = DefaultMaxEffects
  /\ max_depth = DefaultMaxDepth
  /\ cancel_requested = FALSE
  /\ pc = "idle"
  /\ spc = "off"
  /\ product_effects = {}
  /\ queue = <<>>
  /\ visited = <<>>
  /\ cur = <<{}, <<>>>>
  /\ idx = 0
  /\ path = NonePath
  /\ prod_idx = 0
  /\ best = NoBest
  /\ result = NoResult
  /\ hist = NoHist

RankNext ==
  \/ SetCurrentRank \/ ConstructReverse \/ ConstructMixer
  \/ Cancel \/ ResetCancelFlag
  \/ UnmixEnter \/ UnmixReturn
  \/ SearchExhausted \/ SearchCancelled \/ SearchGoal
  \/ SearchBeginExpand \/ SearchExpand

RankSpec == RankInit /\ [][RankNext]_vars

\* forward_effect_search is a synchronous loop on its own thread: once
\* started, its next step is eventually taken
FairSpec == Spec /\ WF_vars(SearchStep)

(* ============================== properties ============================== *)
running == spc \in {"loop", "expand"}
returned == spc = "returned"

\* the set the returned steps end in (the start set for an empty path)
LastSet == IF path.steps = <<>> THEN product_effects
           ELSE path.steps[Len(path.steps)].effects

\* least number of additives from the pool that can turn some reached set into
\* a superset of the desired effects, -1 when max_depth additives do not suffice
RECURSIVE MinAdditives(_, _)
MinAdditives(reached, k) ==
  IF \E S \in reached : desired_effects \subseteq S THEN k
  ELSE IF k >= max_depth THEN -1
  ELSE LET next == reached \cup
                   UNION {apply_additive(S, a, max_effects) : S \in reached, a \in Range(pool)}
       IN IF next = reached THEN -1 ELSE MinAdditives(next, k + 1)

\* C1 (as claimed): an uncancelled search returns a path of the minimum length
\* whenever some sequence of at most max_depth additives reaches the goal.
C1_Minimality ==
  (returned /\ ~hist.aborted /\ MinAdditives({product_effects}, 0) # -1)
    => (path.found /\ Len(path.steps) = MinAdditives({product_effects}, 0))

\* C2 (as claimed): the recorded set of each step is the result of applying that
\* step's additive to the previous set, and the last recorded set holds every
\* desired effect and equals the dequeued state that passed the goal test.
C2_GoalSoundness ==
  (returned /\ path.found) =>
    /\ \A i \in 1..Len(path.steps) :
         path.steps[i].effects \in
           apply_additive(IF i = 1 THEN product_effects ELSE path.steps[i - 1].effects,
                          path.steps[i].addy, max_effects)
    /\ desired_effects \subseteq LastSet
    /\ LastSet = cur[1]

\* C3: every started forward_effect_search eventually returns, cancelled or not.
C3_Termination == running ~> returned

\* a search that expanded states and returned because the queue ran empty
C3_Witness ==
  /\ returned /\ hist.exhausted
  /\ Cardinality(DOMAIN visited) > 1
  /\ hist.applied

\* the effect sets a search has enqueued or recorded in its returned path
EnqueuedOrRecorded ==
  DOMAIN visited \cup {queue[i][1] : i \in 1..Len(queue)}
    \cup {path.steps[i].effects : i \in 1..Len(path.steps)}
    \cup {result.steps[i].effects : i \in 1..Len(result.steps)}

MixLists == {mix.effects, mix.stages.after_rules, mix.stages.after_skipped,
             mix.stages.after_grants}

Larger(a, b) == IF a >= b THEN a ELSE b

C5_DepthBound ==
  returned =>
    /\ path.found => Len(path.steps) <= max_depth
    /\ (~hist.aborted /\ \E S \in DOMAIN visited : desired_effects \subseteq S)
         => path.found
    /\ (max_depth = 0 /\ ~(desired_effects \subseteq product_effects))
         => (~path.found /\ ~hist.applied)

\* a path of exactly max_depth additives was returned
C5_Witness ==
  /\ returned /\ path.found
  /\ max_depth >= 1 /\ Len(path.steps) = max_depth
  /\ visited[cur[1]] = max_depth

\* C6 (as claimed): unmix of a product whose base effects already hold all
\* desired effects, with no cancellation requested, succeeds with an empty
\* path, additive cost 0 and total cost the base product's price.
C6_DirectMatchUnmix ==
  (/\ kind = "unmix" /\ pc = "done" /\ product_name \in ProductNames
   /\ desired_effects \subseteq extract_effects(ProductByName(product_name))
   /\ ~hist.cancel_in_op /\ ~hist.cancel_before)
    => /\ result.tag = "ok"
       /\ result.steps = <<>>
       /\ result.cost.additives = 0
       /\ result.cost.total = result.cost.base_product

\* C7: a poll that finds the cancel predicate true returns None without a goal
\* test, without expanding the dequeued state and without enqueueing anything.
C7_CancelPrecedence ==
  [][ (spc = "loop" /\ cancel_requested /\ queue' # queue)
        => /\ spc' = "returned"
           /\ path' = NonePath
           /\ cur' = cur
           /\ hist'.applied = hist.applied
           /\ visited' = visited ]_vars

\* cancelled at the first poll although the start set held all desired effects
C7_Witness ==
  /\ returned /\ hist.aborted /\ hist.aborted_first
  /\ desired_effects \subseteq product_effects
  /\ ~path.found

\* C8 (as claimed): a cancel() issued before the search's first poll (and not
\* withdrawn by the caller's own reset_cancel_flag) makes unmix return Cancelled.
C8_CancelBeforeFirstPoll ==
  (/\ kind = "unmix" /\ pc = "done" /\ product_name \in ProductNames
   /\ hist.cancel_pre_poll)
    => result.tag = "cancelled"

\* C9 (as claimed): unmix answers 'no additive sequence' only after the search
\* exhausted its state space with no cancellation requested during the
\* operation, and answers Cancelled whenever the search was aborted by cancel().
C9_OutcomesDistinguished ==
  (kind = "unmix" /\ pc = "done") =>
    /\ result.tag = "no_path" => (hist.exhausted /\ ~hist.cancel_in_op)
    /\ hist.aborted => result.tag = "cancelled"

\* the accessible products whose base effects hold all desired effects
Matching == {p \in Range(SelfProducts) : desired_effects \subseteq extract_effects(p)}

\* C10: when some product is a direct match, pick_best_product returns, with an
\* empty path and without any search, a matching product with the fewest base
\* effects among the matching ones.
C10_PickBestDirect ==
  (kind = "pick" /\ pc = "done" /\ Matching # {}) =>
    /\ result.tag = "ok"
    /\ result.steps = <<>>
    /\ ~hist.searched /\ ~hist.polled /\ ~hist.applied
    /\ \E p \in Matching :
         /\ p.Name = result.product
         /\ \A q \in Matching :
              Cardinality(extract_effects(p)) <= Cardinality(extract_effects(q))

\* a direct match was returned although an earlier product with more base
\* effects matched as well
C10_Witness ==
  /\ kind = "pick" /\ pc = "done" /\ result.tag = "ok"
  /\ result.product = "P2"
  /\ Cardinality(Matching) > 1
  /\ \E q \in Matching :
       Cardinality(extract_effects(q)) > Cardinality(extract_effects(ProductByName("P2")))

\* base product price plus the prices of the additives on a found path
TotalCost(f) == ProductByName(f.product).Price + SumPrices(AdditiveNamesOf(f.steps))

\* f is at least as good as g on (path length, total cost), lexicographically
LexLeq(f, g) ==
  \/ Len(f.steps) < Len(g.steps)
  \/ (Len(f.steps) = Len(g.steps) /\ TotalCost(f) <= TotalCost(g))

\* C11 (as claimed): with no direct match, ReverseLogic.pick_best_product
\* returns one of the products its searches found a path for, and no other such
\* product has a shorter path, or an equally long path at a lower total cost.
C11_PickBestLengthThenCost ==
  (kind = "pick" /\ pc = "done" /\ Matching = {} /\ result.tag # "cancelled") =>
    IF hist.found = <<>> THEN result.tag = "no_product"
    ELSE /\ result.tag = "ok"
         /\ \E i \in 1..Len(hist.found) :
              /\ hist.found[i].product = result.product
              /\ hist.found[i].steps = result.steps
              /\ \A j \in 1..Len(hist.found) : LexLeq(hist.found[i], hist.found[j])

GatedUpTo(names, rank_of(_), r) ==
  {n \in names :
     \E i, j \in 1..Len(RankOrder) :
       RankOrder[i] = rank_of(n) /\ RankOrder[j] = r /\ i <= j}

ProductRank(n) == ProductByName(n).Rank
AdditiveRank(a) == Additives[a].Rank

\* C13: once a set_current_rank(r) has succeeded, the two getters return
\* exactly the names whose gating rank occurs in the rank order at an index <=
\* that of r; names gated by a rank outside the rank order are left out.
C13_AccessibilityFilter ==
  current_rank # None =>
    /\ get_accessible_product_names = GatedUpTo(ProductNames, ProductRank, current_rank)
    /\ get_accessible_additive_names = GatedUpTo(AdditiveNames, AdditiveRank, current_rank)

\* at a middle rank a lower-gated name is in, a higher-gated one and one gated
\* by an unknown rank are out
C13_Witness ==
  /\ current_rank = "r2"
  /\ "P1" \in get_accessible_product_names
  /\ "P3" \notin get_accessible_product_names
  /\ "P4" \notin get_accessible_product_names
  /\ ProductRank("P4") \notin Range(RankOrder)
  /\ "M" \notin get_accessible_additive_names

\* C14: a set_current_rank call with a name outside the rank order raises and
\* leaves current_rank, current_rank_index and both accessible sets as they
\* were; calls with a name of the rank order do not raise.
C14_InvalidRank ==
  [][ (rank_call' # rank_call) =>
        /\ rank_call'.raised <=> rank_call'.arg \notin Range(RankOrder)
        /\ rank_call'.raised =>
             /\ current_rank' = current_rank
             /\ current_rank_index' = current_rank_index
             /\ get_accessible_product_names' = get_accessible_product_names
             /\ get_accessible_additive_names' = get_accessible_additive_names ]_vars

\* an invalid call was made while a rank was active
C14_Witness ==
  /\ rank_call.raised /\ rank_call.arg = UnknownRank
  /\ current_rank = "r2" /\ current_rank_index = 1

\* C15 (as claimed): the pools of a constructed ReverseLogic and the filtered
\* catalogs of a constructed MixerLogic equal the sets accessible at the
\* currently active rank.
C15_PoolsFollowActiveRank ==
  /\ reverse_logic.built =>
       /\ reverse_logic.products = get_accessible_product_names
       /\ Range(pool) = get_accessible_additive_names
  /\ mixer_logic.built =>
       /\ mixer_logic.filtered_products = get_accessible_product_names
       /\ mixer_logic.filtered_additives = get_accessible_additive_names

\* C18 (as claimed): unmix of a name outside the products accessible at the
\* active rank returns the 'Unknown product' failure, and no search was run and
\* no price computed for it.
C18_UnknownProduct ==
  (kind = "unmix" /\ pc = "done" /\ product_name \notin get_accessible_product_names)
    => /\ result.tag = "unknown_product"
       /\ ~hist.searched /\ ~hist.polled /\ ~hist.applied
       /\ result.cost = NoResult.cost

\* C16 (as claimed): two independent apply_additive calls with equal arguments
\* return equal effect sets.
C16_RuleDeterminism ==
  call.state = "done" => call.first = call.second

\* C20 (as claimed): an additive with no replacement rules and no granted
\* effect returns the input effect set unchanged and adds no member.
C20_BareAdditiveNoOp ==
  (/\ call.state \in {"one", "done"}
   /\ call.additive_name \in DOMAIN BareAdditives
   /\ call.additive_name \notin DOMAIN NestedRules)
    => /\ call.first = call.current_effects
       /\ None \notin call.first

\* the sets some run of the additive sequence q can end in, from the sets in `from`
RECURSIVE Reach(_, _)
Reach(from, q) ==
  IF q = <<>> THEN from
  ELSE Reach(UNION {apply_additive(S, Head(q), max_effects) : S \in from}, Tail(q))

\* the additive sequences of length n over the pool that can reach the goal
Solutions(n) ==
  {q \in [1..n -> Range(pool)] :
     \E T \in Reach({product_effects}, q) : desired_effects \subseteq T}

PoolPos(a) == CHOOSE i \in 1..Len(pool) : pool[i] = a

\* p comes before q in lexicographic order by pool position
LexLess(p, q) ==
  \E k \in 1..Len(p) :
    /\ \A j \in 1..(k - 1) : p[j] = q[j]
    /\ PoolPos(p[k]) < PoolPos(q[k])

\* C17 (as claimed): the additive sequence a search returns is determined by
\* its inputs: it is the least, in lexicographic order by pool position, of the
\* minimum-length additive sequences that reach the goal.
C17_FirstDiscoveredWins ==
  (returned /\ path.found) =>
    LET n == MinAdditives({product_effects}, 0)
        q == AdditiveNamesOf(path.steps)
    IN /\ Len(q) = n
       /\ \A r \in Solutions(n) : r = q \/ LexLess(q, r)

\* C19 (as claimed): of two overlapping unmix calls on one ReverseLogic, each
\* ends as Cancelled exactly when a cancellation was requested for it while it
\* ran: a cancellation of the other call does not cancel it, and the start of
\* the other call does not clear its own pending cancellation.
C19_IndependentCancellation ==
  /\ (kind = "unmix" /\ pc = "done" /\ product_name \in reverse_logic.products)
       => (result.tag = "cancelled" <=> hist.cancel_in_op)
  /\ other.pc = "done"
       => (other.result = "cancelled" <=> other.cancel_wanted)

\* C21 (as claimed): when no search of the helper pick_best_product finds a
\* path, the helper returns the triple (None, None, None).
C21_HelperNoSolution ==
  (kind = "hpick" /\ pc = "done" /\ hist.found = <<>>)
    => /\ result.tag = "none"
       /\ result.product = "" /\ result.steps = <<>>
       /\ result.cost.kind = "None"

applied_once == call.state \in {"one", "done", "mixed"}

Count(l, e) == Cardinality({i \in 1..Len(l) : l[i] = e})

\* pairs of rules of the additive with one target, both sources in the set and
\* the target not in it
ConflictPairs(S, rules) ==
  {pr \in (DOMAIN rules \cap S) \X (DOMAIN rules \cap S) :
     pr[1] # pr[2] /\ rules[pr[1]] = rules[pr[2]] /\ rules[pr[1]] \notin S}

\* C22: when two rules of an additive have the same target, both sources are
\* in the set and the target is not, one application (of apply_additive, and
\* of a calculate_mix step) leaves the target in the set exactly once, with
\* exactly one of the two sources replaced and the other still present.
C22_ConflictingRules ==
  LET rules == RulesOf(call.additive_name) IN
  \A pr \in ConflictPairs(call.current_effects, rules) :
    /\ applied_once =>
         /\ Count(call.stages.after_skipped, rules[pr[1]]) = 1
         /\ Contains(call.stages.after_skipped, pr[1])
              # Contains(call.stages.after_skipped, pr[2])
         /\ rules[pr[1]] \in call.first
         /\ (pr[1] \in call.first) # (pr[2] \in call.first)
    /\ call.state = "mixed" =>
         /\ Count(mix.stages.after_skipped, rules[pr[1]]) = 1
         /\ Contains(mix.stages.after_skipped, pr[1])
              # Contains(mix.stages.after_skipped, pr[2])
         /\ Count(mix.effects, rules[pr[1]]) = 1
         /\ Contains(mix.effects, pr[1]) # Contains(mix.effects, pr[2])

C22_Witness ==
  /\ call.state = "mixed"
  /\ call.additive_name = "X"
  /\ call.current_effects = {"A", "B"}
  /\ call.first = {"A", "C"}
  /\ Range(mix.effects) = {"B", "C"}

\* the list after the skipped rules were re-examined from the one skipped last
\* (position i) down to the one skipped first, each firing exactly when its
\* source is in the list and its target is not
RECURSIVE LifoFrom(_, _, _)
LifoFrom(l, skipped, i) ==
  IF i = 0 THEN l
  ELSE LifoFrom(IF Contains(l, skipped[i][1]) /\ ~Contains(l, skipped[i][2])
                THEN Append(ListRemove(l, skipped[i][1]), skipped[i][2])
                ELSE l,
                skipped, i - 1)

\* C23: a rule skipped in the first pass fires in the second pass exactly when,
\* in the set as it stands when the rule is re-examined, its source is present
\* and its target absent (A->B, B->C on {A, B} gives {B, C}); the skipped rules
\* are re-examined in the reverse of the order they were skipped in, so of
\* several skipped rules that compete for one freed target only the one skipped
\* last fires.
C23_DeferredRulesLifo ==
  applied_once =>
    LET st == call.stages
        n == Len(st.skipped)
    IN /\ st.after_skipped = LifoFrom(st.after_rules, st.skipped, n)
       /\ (call.additive_name = "R" /\ call.current_effects = {"A", "B"})
            => call.first = {"B", "C"}
       /\ \A i, j \in 1..n :
            (/\ i < j
             /\ st.skipped[i][2] = st.skipped[j][2]
             /\ \A k \in (j + 1)..n : st.skipped[k][2] # st.skipped[j][2]
             /\ ~Contains(st.after_rules, st.skipped[j][2])
             /\ Contains(st.after_rules, st.skipped[i][1])
             /\ Contains(st.after_rules, st.skipped[j][1]))
              => /\ ~Contains(st.after_skipped, st.skipped[j][1])
                 /\ Contains(st.after_skipped, st.skipped[i][1])
                 /\ Contains(st.after_skipped, st.skipped[j][2])

C23_Witness ==
  /\ applied_once
  /\ call.additive_name = "Q"
  /\ call.current_effects = {"A", "B", "C"}
  /\ Len(call.stages.skipped) = 2
  /\ call.stages.skipped[2][1] = "B"
  /\ call.first = {"A", "C", "D"}

\* the grant list of the additive object as apply_additive receives it
GrantList(additive_name) ==
  IF additive_name \in EffectNotList THEN <<AdditiveObjects[additive_name].Effect>>
  ELSE AdditiveObjects[additive_name].Effect

\* the grants of `grants` that are in `after` but were not in `before`
\* are its earliest-listed missing ones, each added below the capacity
EarliestGrantsAdded(grants, before, after, cap) ==
  /\ \A i \in 1..Len(grants) :
       (~Contains(before, grants[i]) /\ Contains(after, grants[i]))
         => Len(before) < cap
  /\ \A i, j \in 1..Len(grants) :
       (i < j /\ ~Contains(before, grants[i]) /\ ~Contains(before, grants[j])
              /\ Contains(after, grants[j]))
         => Contains(after, grants[i])
  /\ \A i \in 1..Len(grants) :
       (~Contains(before, grants[i]) /\ ~Contains(after, grants[i]))
         => Len(after) >= cap
  /\ Len(after) <= IF Len(before) > cap THEN Len(before) ELSE cap

\* C24 (as claimed): after the rule phases each grant not already present is
\* added exactly when the set holds fewer than max_effects members; the grants
\* are considered in the order of the grant list, so when the capacity admits
\* only some of them the earliest-listed missing grants are the ones added
\* (apply_additive, and a calculate_mix step).
C24_GrantsInListOrder ==
  /\ applied_once =>
       EarliestGrantsAdded(GrantList(call.additive_name), call.stages.after_skipped,
                           call.stages.after_grants, call.max_effects)
  /\ call.state = "mixed" =>
       EarliestGrantsAdded(MixAdditiveEntry(call.additive_name).Effect,
                           mix.stages.after_skipped, mix.stages.after_grants,
                           call.max_effects)

\* C27: after the first pass and after the skipped-rule pass the effect list
\* has no duplicates and exactly as many members as the input set; the grant
\* phase may add members and nothing removes any (apply_additive, and a
\* calculate_mix step).
C27_ReplacementKeepsCardinality ==
  LET n == Cardinality(call.current_effects) IN
  /\ applied_once =>
       /\ Len(call.stages.after_rules) = n /\ Distinct(call.stages.after_rules)
       /\ Len(call.stages.after_skipped) = n /\ Distinct(call.stages.after_skipped)
       /\ Len(call.stages.after_grants) >= n /\ Distinct(call.stages.after_grants)
       /\ Cardinality(call.first) >= n
  /\ call.state = "mixed" =>
       /\ Len(mix.stages.after_rules) = n /\ Distinct(mix.stages.after_rules)
       /\ Len(mix.stages.after_skipped) = n /\ Distinct(mix.stages.after_skipped)
       /\ Len(mix.stages.after_grants) >= n /\ Distinct(mix.stages.after_grants)

C27_Witness ==
  /\ call.state = "mixed"
  /\ call.additive_name = "R"
  /\ call.current_effects = {"A", "B"}
  /\ call.stages.skipped # <<>>
  /\ call.first = {"B", "C"}
  /\ Range(mix.stages.after_skipped) = {"B", "C"}

\* the selected additives calculate_mix knows, in the order given
KnownSelected == SelectSeq(additives_selected, LAMBDA a : a \in AdditiveNames)

\* C28 (as claimed): the effects calculate_mix produces for a product and an
\* additive sequence are those of folding apply_additive over the sequence
\* from the product's base effects (so an unmix path fed to the mixer gives
\* the final effects unmix reported).
C28_MixUnmixAgree ==
  (kind = "mix" /\ pc = "done" /\ result.tag = "mixed")
    => result.final_effects \in
         Reach({extract_effects(ProductByName(product_name))}, KnownSelected)

\* least number of additives of the pool after which some run of apply_additive
\* can have produced S from the start set, -1 when no number does
RECURSIVE DepthOf(_, _, _)
DepthOf(S, reached, k) ==
  IF S \in reached THEN k
  ELSE LET next == reached \cup
                   UNION {apply_additive(T, a, max_effects) : T \in reached, a \in Range(pool)}
       IN IF next = reached THEN -1 ELSE DepthOf(S, next, k + 1)

\* C25 (as claimed): in a run of forward_effect_search every effect set is
\* enqueued at most once, the depth the visited map records for it is the least
\* number of additives needed to reach it, and no set is rediscovered at a
\* depth strictly smaller than its recorded depth.
C25_VisitOnce ==
  spc # "off" =>
    /\ ~hist.reenqueued
    /\ \A i, j \in 1..Len(queue) : i # j => queue[i][1] # queue[j][1]
    /\ \A S \in DOMAIN visited : visited[S] = DepthOf(S, {product_effects}, 0)

\* C26: the cancel predicate is read at every dequeue, before the goal test;
\* once a poll has found it true the search is over and has returned None; and
\* after the flag was set (and stayed set) the search makes at most |pool|
\* expansion calls of apply_additive before it observes the flag or returns.
C26_BoundedCancelLatency ==
  /\ hist.since_cancel <= Len(pool)
  /\ hist.aborted => (spc \notin {"loop", "expand"} /\ ~path.found)
  /\ (spc = "expand" /\ hist.since_cancel > 0) => (cancel_requested /\ hist.polled)

\* cancelled after the poll of a state: the whole pool was applied to that state
\* and the next poll ended the search
C26_Witness ==
  /\ hist.aborted /\ spc = "returned" /\ ~path.found
  /\ Len(pool) >= 2
  /\ hist.since_cancel = Len(pool)

\* C29 (as claimed): with the launch sequence of the UI (reset_cancel_flag on
\* the UI thread, then a worker thread that calls unmix), a cancel() issued
\* after the launch and before the search completed makes the worker's result
\* the Cancelled outcome.
C29_NoLostCancellation ==
  (kind = "unmix" /\ pc = "done" /\ hist.launched /\ hist.cancel_after_launch)
    => result.tag = "cancelled"

\* C30 (as claimed): pick_best_product returns the Cancelled outcome only if
\* cancel() was called after that call began; a flag that was left set before
\* the call does not make it report Cancelled.
C30_NoSpuriousCancellation ==
  (kind = "pick" /\ pc = "done" /\ result.tag = "cancelled") => hist.cancel_in_op
====
